---------------------------- MODULE Spec2Model ----------------------------
(***************************************************************************)
(* Model of pcdshub/device_config: diff.py (two-snapshot report) and       *)
(* find_changes.py (history walk over the commits touching db.json).       *)
(*                                                                         *)
(* Python strings are modelled as sequences of one-character strings, so   *)
(* that str(), f-strings, lstrip/strip/split/startswith are computed.      *)
(* Attribute keys of records are kept as TLA+ strings.                     *)
(***************************************************************************)
EXTENDS Integers, Sequences, FiniteSets, TLC

VARIABLES
    \* --- the record differ called on one pair of mappings
    d1, d2,          \* the two keyed mappings (old, new)
    called,          \* which of the functions have been applied to (d1, d2)
    changes,         \* list(diff.get_changes(d1, d2))
    fc_changes,      \* list(find_changes.get_changes(d1, d2))
    same, same_rev,  \* diff.is_same(d1, d2), diff.is_same(d2, d1)
    fc_same, fc_same_rev,  \* find_changes.is_same(d1, d2) and (d2, d1)
    \* --- rename detection
    raw_diff,        \* the lines of git diff-tree --patch for db.json, as tokens
    renames,         \* the dict find_renames returned, in insertion order
    r_status,        \* "idle", or how find_renames ended: "returned", "raised"
    \* --- the history walk (print_item_changes, print_all_changes)
    pc,              \* "fetch": at the for statement; "commit": in the loop body;
                     \* "done": the iterator is exhausted; "error": an exception
    commit_no,       \* how many commits iter_db_changes has yielded
    by_name,         \* the snapshot of the current commit
    out,             \* what has been printed for the current commit
    last_by_name,    \* Mode B: the dict the rolling state refers to
    last_loaded,     \* that dict as iter_db_changes yielded it ({} at first)
    printed_header,  \* Mode B: the closure variable of print_header
    ren_idx,         \* Mode B: the next entry of renames.items() to visit
    visited,         \* Mode B: the items the for loop has visited
    skip_keys,       \* Mode B: the attributes not to report
    item,            \* Mode A: the traced item
    last,            \* Mode A: the last-seen record
    on_scenario,     \* the commits so far are a prefix of S1, S2, S3 (no renames)
    deleted_before,  \* Mode B: the items the previous commit reported as deleted
    \* --- the two-snapshot report (diff.print_changes)
    db1, db2,        \* the databases of the two commits
    device_changes,  \* sorted(get_changes(db1, db2))
    dev_idx,         \* the next entry of device_changes to visit
    report,          \* the lines printed so far
    report_pc        \* "idle"; "start": called; "devices": in the loop; "done"

diffVars == <<d1, d2, called, changes, fc_changes, same, same_rev, fc_same, fc_same_rev>>

renameVars == <<raw_diff, renames, r_status>>
walkVars == <<pc, commit_no, by_name, out, last_by_name, last_loaded, printed_header,
              ren_idx, visited, skip_keys, item, last, on_scenario, deleted_before>>

reportVars == <<db1, db2, device_changes, dev_idx, report, report_pc>>

vars == <<diffVars, renameVars, walkVars, reportVars>>

\* the parts of the state a specification does not use
DiffIdle ==
    /\ d1 = <<>> /\ d2 = <<>>
    /\ called = {}
    /\ changes = <<>> /\ fc_changes = <<>>
    /\ same = FALSE /\ same_rev = FALSE
    /\ fc_same = FALSE /\ fc_same_rev = FALSE

RenameIdle ==
    /\ raw_diff = <<>>
    /\ renames = <<>>
    /\ r_status = "idle"

WalkIdle ==
    /\ pc = "done"
    /\ commit_no = 0
    /\ by_name = <<>> /\ out = <<>>
    /\ last_by_name = <<>> /\ last_loaded = <<>>
    /\ printed_header = FALSE
    /\ ren_idx = 1
    /\ visited = {}
    /\ skip_keys = {}
    /\ item = <<>>
    /\ last = <<>>
    /\ on_scenario = FALSE
    /\ deleted_before = {}

ReportIdle ==
    /\ db1 = <<>> /\ db2 = <<>>
    /\ device_changes = <<>>
    /\ dev_idx = 1
    /\ report = <<>>
    /\ report_pc = "idle"

-----------------------------------------------------------------------------
(* Bounds *)

\* integers 1..MaxInt occur as attribute values
MaxInt == 2
\* a raw diff has at most MaxLines lines
MaxLines == 3
\* a walk visits at most MaxCommits commits
MaxCommits == 3
\* db.json holds at most MaxItems items
MaxItems == 2
\* the raw diff of a walked commit has at most MaxWalkLines lines
MaxWalkLines == 4

-----------------------------------------------------------------------------
(* Python values: JSON scalars as json.loads produces them *)

IntVal(i) == [ty |-> "int", n |-> i, s |-> <<>>]
StrVal(cs) == [ty |-> "str", n |-> 0, s |-> cs]
BoolVal(b) == [ty |-> "bool", n |-> IF b THEN 1 ELSE 0, s |-> <<>>]
NoneVal == [ty |-> "none", n |-> 0, s |-> <<>>]

DigitChars == <<"0", "1", "2", "3", "4", "5", "6", "7", "8", "9">>

\* decimal rendering of a natural number
RECURSIVE NatChars(_)
NatChars(i) ==
    IF i < 10 THEN <<DigitChars[i + 1]>>
    ELSE NatChars(i \div 10) \o <<DigitChars[(i % 10) + 1]>>

\* Python str(v) (also the f-string conversion "{v}")
PyStr(v) ==
    CASE v.ty = "int" -> IF v.n < 0 THEN <<"-">> \o NatChars(-v.n) ELSE NatChars(v.n)
      [] v.ty = "str" -> v.s
      [] v.ty = "bool" -> IF v.n = 1 THEN <<"T", "r", "u", "e">>
                          ELSE <<"F", "a", "l", "s", "e">>
      [] v.ty = "none" -> <<"N", "o", "n", "e">>

\* Python a == b on JSON scalars: bool is a subclass of int (True == 1),
\* a str equals only an equal str, None equals only None.
PyEq(a, b) ==
    IF a.ty \in {"int", "bool"} /\ b.ty \in {"int", "bool"} THEN a.n = b.n
    ELSE IF a.ty = "str" /\ b.ty = "str" THEN a.s = b.s
    ELSE a.ty = "none" /\ b.ty = "none"

\* set(d): the key set of a dict
KeySet(d) == DOMAIN d

\* the orders in which iterating over a set (or a dict's keys) can visit it
Enumerations(S) ==
    {o \in [1..Cardinality(S) -> S] : \A i, j \in 1..Cardinality(S) : i # j => o[i] # o[j]}

-----------------------------------------------------------------------------
(* diff.py *)

is_same_subset(a, b) ==
    IF ~(KeySet(a) \subseteq KeySet(b)) THEN FALSE
    ELSE \A k \in KeySet(a) : PyStr(a[k]) = PyStr(b[k])

\* diff.is_same
is_same(a, b) ==
    IF KeySet(a) # KeySet(b) THEN FALSE
    ELSE \A k \in KeySet(a) : PyStr(a[k]) = PyStr(b[k])

Event(action, key, value) == [action |-> action, key |-> key, value |-> value]

get_changes_no_deleted(a, b, addedOrder, deletedOrder, bOrder) ==
    LET IsChanged(k) == k \in KeySet(a) /\ ~PyEq(a[k], b[k])
    IN  [i \in 1..Len(addedOrder) |-> Event("added", addedOrder[i], b[addedOrder[i]])]
        \o [i \in 1..Len(SelectSeq(bOrder, IsChanged)) |->
              Event("changed", SelectSeq(bOrder, IsChanged)[i],
                    b[SelectSeq(bOrder, IsChanged)[i]])]

get_changes_str_compare(a, b, addedOrder, deletedOrder, bOrder) ==
    LET IsChanged(k) == k \in KeySet(a) /\ PyStr(a[k]) # PyStr(b[k])
    IN  [i \in 1..Len(addedOrder) |-> Event("added", addedOrder[i], b[addedOrder[i]])]
        \o [i \in 1..Len(deletedOrder) |-> Event("deleted", deletedOrder[i], NoneVal)]
        \o [i \in 1..Len(SelectSeq(bOrder, IsChanged)) |->
              Event("changed", SelectSeq(bOrder, IsChanged)[i],
                    b[SelectSeq(bOrder, IsChanged)[i]])]

get_changes_or_slip(a, b, addedOrder, deletedOrder, bOrder) ==
    LET IsChanged(k) == k \in KeySet(a)
    IN  [i \in 1..Len(addedOrder) |-> Event("added", addedOrder[i], b[addedOrder[i]])]
        \o [i \in 1..Len(deletedOrder) |-> Event("deleted", deletedOrder[i], NoneVal)]
        \o [i \in 1..Len(SelectSeq(bOrder, IsChanged)) |->
              Event("changed", SelectSeq(bOrder, IsChanged)[i],
                    b[SelectSeq(bOrder, IsChanged)[i]])]

\* diff.get_changes, as the list of the tuples it yields.  addedOrder,
\* deletedOrder: the iteration orders of the two set differences; bOrder:
\* the iteration order of dict b.
get_changes(a, b, addedOrder, deletedOrder, bOrder) ==
    LET IsChanged(k) == k \in KeySet(a) /\ ~PyEq(a[k], b[k])
    IN  [i \in 1..Len(addedOrder) |-> Event("added", addedOrder[i], b[addedOrder[i]])]
        \o [i \in 1..Len(deletedOrder) |-> Event("deleted", deletedOrder[i], NoneVal)]
        \o [i \in 1..Len(SelectSeq(bOrder, IsChanged)) |->
              Event("changed", SelectSeq(bOrder, IsChanged)[i],
                    b[SelectSeq(bOrder, IsChanged)[i]])]

-----------------------------------------------------------------------------
(* find_changes.py: is_same, get_changes *)

\* find_changes.is_same
fc_is_same(a, b) ==
    IF KeySet(a) # KeySet(b) THEN FALSE
    ELSE \A k \in KeySet(a) : PyEq(a[k], b[k])

DeletedKeyText == <<"(", "d", "e", "l", "e", "t", "e", "d", " ", "k", "e", "y", ")">>
ArrowText == <<" ", "-", ">", " ">>

Change(key, text) == [key |-> key, change |-> text]

fc_get_changes_inverted(a, b, addedOrder, deletedOrder, bOrder) ==
    LET IsChanged(k) == k \in KeySet(a) /\ PyEq(a[k], b[k])
    IN  [i \in 1..Len(addedOrder) |-> Change(addedOrder[i], PyStr(b[addedOrder[i]]))]
        \o [i \in 1..Len(deletedOrder) |-> Change(deletedOrder[i], DeletedKeyText)]
        \o [i \in 1..Len(SelectSeq(bOrder, IsChanged)) |->
              LET k == SelectSeq(bOrder, IsChanged)[i]
              IN  Change(k, PyStr(a[k]) \o ArrowText \o PyStr(b[k]))]

\* find_changes.get_changes, as the list of the (key, text) pairs it yields
fc_get_changes(a, b, addedOrder, deletedOrder, bOrder) ==
    LET IsChanged(k) == k \in KeySet(a) /\ ~PyEq(a[k], b[k])
    IN  [i \in 1..Len(addedOrder) |-> Change(addedOrder[i], PyStr(b[addedOrder[i]]))]
        \o [i \in 1..Len(deletedOrder) |-> Change(deletedOrder[i], DeletedKeyText)]
        \o [i \in 1..Len(SelectSeq(bOrder, IsChanged)) |->
              LET k == SelectSeq(bOrder, IsChanged)[i]
              IN  Change(k, PyStr(a[k]) \o ArrowText \o PyStr(b[k]))]

-----------------------------------------------------------------------------
(* The differ applied to one pair of mappings *)

DiffKeys == {"a", "b"}
DiffValues ==
    {IntVal(i) : i \in 1..MaxInt} \cup {StrVal(<<"1">>), BoolVal(TRUE), NoneVal}
DiffRecords == UNION {[K -> DiffValues] : K \in SUBSET DiffKeys}

DiffInit ==
    /\ d1 \in DiffRecords
    /\ d2 \in DiffRecords
    /\ called = {}
    /\ changes = <<>>
    /\ fc_changes = <<>>
    /\ same = FALSE
    /\ same_rev = FALSE
    /\ fc_same = FALSE
    /\ fc_same_rev = FALSE
    /\ RenameIdle
    /\ WalkIdle
    /\ ReportIdle

CallGetChanges ==
    /\ "get_changes" \notin called
    /\ \E addedOrder \in Enumerations(KeySet(d2) \ KeySet(d1)),
          deletedOrder \in Enumerations(KeySet(d1) \ KeySet(d2)),
          bOrder \in Enumerations(KeySet(d2)) :
          changes' = get_changes(d1, d2, addedOrder, deletedOrder, bOrder)
    /\ called' = called \cup {"get_changes"}
    /\ UNCHANGED <<d1, d2, fc_changes, same, same_rev, fc_same, fc_same_rev>>
    /\ UNCHANGED <<renameVars, walkVars, reportVars>>

CallFcGetChanges ==
    /\ "fc_get_changes" \notin called
    /\ \E addedOrder \in Enumerations(KeySet(d2) \ KeySet(d1)),
          deletedOrder \in Enumerations(KeySet(d1) \ KeySet(d2)),
          bOrder \in Enumerations(KeySet(d2)) :
          fc_changes' = fc_get_changes(d1, d2, addedOrder, deletedOrder, bOrder)
    /\ called' = called \cup {"fc_get_changes"}
    /\ UNCHANGED <<d1, d2, changes, same, same_rev, fc_same, fc_same_rev>>
    /\ UNCHANGED <<renameVars, walkVars, reportVars>>

CallIsSame ==
    /\ "is_same" \notin called
    /\ same' = is_same(d1, d2)
    /\ same_rev' = is_same(d2, d1)
    /\ called' = called \cup {"is_same"}
    /\ UNCHANGED <<d1, d2, changes, fc_changes, fc_same, fc_same_rev>>
    /\ UNCHANGED <<renameVars, walkVars, reportVars>>

CallFcIsSame ==
    /\ "fc_is_same" \notin called
    /\ fc_same' = fc_is_same(d1, d2)
    /\ fc_same_rev' = fc_is_same(d2, d1)
    /\ called' = called \cup {"fc_is_same"}
    /\ UNCHANGED <<d1, d2, changes, fc_changes, same, same_rev>>
    /\ UNCHANGED <<renameVars, walkVars, reportVars>>

DiffNext ==
    \/ CallGetChanges
    \/ CallFcGetChanges
    \/ CallIsSame
    \/ CallFcIsSame

SpecDiff == DiffInit /\ [][DiffNext]_vars

-----------------------------------------------------------------------------
(* Python string methods *)

RECURSIVE LStrip(_, _)
\* s.lstrip(chars)
LStrip(s, chars) ==
    IF s = <<>> \/ Head(s) \notin chars THEN s ELSE LStrip(Tail(s), chars)

RECURSIVE RStrip(_, _)
RStrip(s, chars) ==
    IF s = <<>> \/ s[Len(s)] \notin chars THEN s
    ELSE RStrip(SubSeq(s, 1, Len(s) - 1), chars)

\* s.strip(chars)
Strip(s, chars) == RStrip(LStrip(s, chars), chars)

\* s.startswith(prefix)
StartsWith(s, prefix) ==
    Len(s) >= Len(prefix) /\ SubSeq(s, 1, Len(prefix)) = prefix

\* the positions at which sep occurs in s
Occurrences(s, sep) ==
    {i \in 1..(Len(s) - Len(sep) + 1) : SubSeq(s, i, i + Len(sep) - 1) = sep}

Min(S) == CHOOSE m \in S : \A o \in S : m <= o

\* s.split(sep, 1): one part when sep does not occur, else two
Split1(s, sep) ==
    IF Occurrences(s, sep) = {} THEN <<s>>
    ELSE LET i == Min(Occurrences(s, sep))
         IN  <<SubSeq(s, 1, i - 1), SubSeq(s, i + Len(sep), Len(s))>>

-----------------------------------------------------------------------------
(* Python dict in insertion order: a sequence of entries with distinct keys *)

DictKeys(dict) == {dict[i].key : i \in 1..Len(dict)}
DictGet(dict, k) == (CHOOSE i \in 1..Len(dict) : dict[i].key = k)

\* dict[k] = v: an existing key keeps its place
DictSet(dict, k, v) ==
    IF k \in DictKeys(dict)
    THEN [i \in 1..Len(dict) |-> IF dict[i].key = k THEN [key |-> k, val |-> v] ELSE dict[i]]
    ELSE Append(dict, [key |-> k, val |-> v])

DictValue(dict, k) == dict[DictGet(dict, k)].val

-----------------------------------------------------------------------------
(* find_changes.find_renames *)

MinusQuote == {"-", " ", "\""}
PlusQuote == {"+", " ", "\""}
QuoteColonComma == {"\"", ":", ","}
NameQuote == <<"n", "a", "m", "e", "\"">>
ColonSpace == <<":", " ">>

\* lines[::2] and lines[1::2] zipped: (lines[0], lines[1]), (lines[2], lines[3]), ...
\* (0-based), here 1-based: the pairs starting at the odd positions
ZipPairStarts(lines) == {p \in 1..(Len(lines) - 1) : p % 2 = 1}

EveryPairStarts(lines) == 1..(Len(lines) - 1)

\* the loop body's three "continue" tests
IsCandidate(line, next_line) ==
    /\ StartsWith(line, <<"-">>) /\ StartsWith(next_line, <<"+">>)
    /\ StartsWith(LStrip(line, MinusQuote), NameQuote)
    /\ StartsWith(LStrip(next_line, PlusQuote), NameQuote)

RECURSIVE FindRenamesLoop(_, _, _, _)
\* the for loop over the zipped pairs, from pair start p on; raised: line 139
\* or 140 indexed a split that has one part (IndexError)
FindRenamesLoop(lines, starts, p, acc) ==
    IF p > Len(lines) - 1 THEN [dict |-> acc, raised |-> FALSE]
    ELSE IF p \notin starts \/ ~IsCandidate(lines[p], lines[p + 1])
    THEN FindRenamesLoop(lines, starts, p + 1, acc)
    ELSE LET old_parts == Split1(lines[p], ColonSpace)
             new_parts == Split1(lines[p + 1], ColonSpace)
         IN  IF Len(old_parts) < 2 \/ Len(new_parts) < 2
             THEN [dict |-> acc, raised |-> TRUE]
             ELSE LET old_name == Strip(old_parts[2], QuoteColonComma)
                      new_name == Strip(new_parts[2], QuoteColonComma)
                  IN  FindRenamesLoop(lines, starts, p + 1,
                         IF old_name # new_name THEN DictSet(acc, old_name, new_name)
                         ELSE acc)

find_renames_every_pair(lines) ==
    FindRenamesLoop(lines, EveryPairStarts(lines), 1, <<>>)

\* find_renames(commit), given raw_diff.splitlines()
find_renames(lines) ==
    FindRenamesLoop(lines, ZipPairStarts(lines), 1, <<>>)

-----------------------------------------------------------------------------
(* The raw diff: lines of db.json as json.dump(indent=4) writes them, each  *)
(* behind the diff's sign column                                            *)

NameX == <<"x">>
NameY == <<"y">>
Names == {NameX, NameY}

NameKeyChars == <<"n", "a", "m", "e">>
VKeyChars == <<"v">>

\* json.dumps of a scalar
JsonScalar(v) ==
    CASE v.ty = "str" -> <<"\"">> \o v.s \o <<"\"">>
      [] v.ty = "int" -> PyStr(v)
      [] v.ty = "bool" -> IF v.n = 1 THEN <<"t", "r", "u", "e">>
                          ELSE <<"f", "a", "l", "s", "e">>
      [] v.ty = "none" -> <<"n", "u", "l", "l">>

Indent == <<" ", " ", " ", " ", " ", " ", " ", " ">>

DiffToken(sign, key, val) == [sign |-> sign, key |-> key, val |-> val]

\* one line of the patch: sign, indentation, "key": value,
FormatLine(tok) ==
    <<tok.sign>> \o Indent \o <<"\"">> \o tok.key \o <<"\"">> \o ColonSpace
        \o JsonScalar(tok.val) \o <<",">>

SplitLines(diff) == [i \in 1..Len(diff) |-> FormatLine(diff[i])]

DiffTokens ==
    {DiffToken(sign, NameKeyChars, StrVal(n)) : sign \in {" ", "-", "+"}, n \in Names}
    \cup {DiffToken(sign, VKeyChars, IntVal(1)) : sign \in {" ", "-", "+"}}

RawDiffs == UNION {[1..n -> DiffTokens] : n \in 0..MaxLines}

RenameInit ==
    /\ raw_diff \in RawDiffs
    /\ renames = <<>>
    /\ r_status = "idle"
    /\ DiffIdle
    /\ ReportIdle
    /\ WalkIdle

CallFindRenames ==
    /\ r_status = "idle"
    /\ renames' = find_renames(SplitLines(raw_diff)).dict
    /\ r_status' = IF find_renames(SplitLines(raw_diff)).raised THEN "raised"
                   ELSE "returned"
    /\ UNCHANGED <<raw_diff, diffVars, walkVars, reportVars>>

RenameNext == CallFindRenames

SpecRenames == RenameInit /\ [][RenameNext]_vars

IsNameToken(tok, sign) == tok.sign = sign /\ tok.key = NameKeyChars

RenamePairs ==
    {p \in 1..(Len(raw_diff) - 1) :
        /\ IsNameToken(raw_diff[p], "-")
        /\ IsNameToken(raw_diff[p + 1], "+")
        /\ raw_diff[p].val.s # raw_diff[p + 1].val.s}

\* C4 (as claimed): find_renames returns old->new for every position p, even
\* or odd, where line p is a deleted and line p+1 an added "name" assignment
\* with different values, and returns nothing else.
C4_RenameAtAnyPosition ==
    r_status = "returned" =>
        /\ \A p \in RenamePairs :
              /\ raw_diff[p].val.s \in DictKeys(renames)
              /\ DictValue(renames, raw_diff[p].val.s) = raw_diff[p + 1].val.s
        /\ \A i \in 1..Len(renames) :
              \E p \in RenamePairs :
                 /\ raw_diff[p].val.s = renames[i].key
                 /\ raw_diff[p + 1].val.s = renames[i].val

-----------------------------------------------------------------------------
(* find_changes.py: the snapshot source *)

LastEditText == <<"t">>

\* the records an item named n can have in db.json
ItemRecords(n) ==
    {[name |-> StrVal(n), v |-> IntVal(1)],
     [name |-> StrVal(n), v |-> IntVal(2)],
     [name |-> StrVal(n), v |-> IntVal(1), last_edit |-> StrVal(LastEditText)]}

\* raw_db.values() of a commit
RawDbs == UNION {[1..n -> UNION {ItemRecords(nm) : nm \in Names}] : n \in 0..MaxItems}

Max(S) == CHOOSE m \in S : \A o \in S : m >= o

\* {it["name"]: it for it in raw_db.values()}: a later item of the same name wins
ByName(values) ==
    [n \in {values[i].name.s : i \in 1..Len(values)} |->
        values[Max({i \in 1..Len(values) : values[i].name.s = n})]]

\* the raw diffs of a walked commit: changed "name" lines
WalkDiffs ==
    UNION {[1..n -> {t \in DiffTokens : t.key = NameKeyChars}] : n \in 0..MaxWalkLines}

\* an added "name" line of the patch is a line of the commit's db.json
AddedNames(diff) ==
    {diff[i].val.s : i \in {j \in 1..Len(diff) : diff[j].sign = "+"}}

\* the snapshots iter_db_changes can yield
Snapshots == {ByName(raw_db) : raw_db \in RawDbs}

\* what a commit of the walk can bring: its snapshot, and what find_renames
\* makes of its raw diff
WalkFound ==
    {[found |-> find_renames(SplitLines(diff)), added |-> AddedNames(diff)] :
        diff \in WalkDiffs}

WalkCommits ==
    {[by_name |-> c[1], found |-> c[2].found] :
        c \in {x \in Snapshots \X WalkFound : x[2].added \subseteq DOMAIN x[1]}}

\* the scenario of the specification: S1, S2, S3
Scenario ==
    <<(NameX :> [name |-> StrVal(NameX), v |-> IntVal(1)]),
      (NameX :> [name |-> StrVal(NameX), v |-> IntVal(2)]),
      <<>>>>

OnScenario(n, snap, rn) ==
    on_scenario /\ n <= Len(Scenario) /\ snap = Scenario[n] /\ rn = <<>>

-----------------------------------------------------------------------------
(* What the walk prints *)

Entry(kind, it, key, text) == [kind |-> kind, item |-> it, key |-> key, text |-> text]

\* print_header(): a blank line and the commit's date and message
HeaderEntry == Entry("header", <<>>, "", <<>>)
RenameEntry(old, new) == Entry("rename", old, "", new)
DeletedEntry(it) == Entry("deleted", it, "", <<>>)
AttrEntry(it, key, text) == Entry("attr", it, key, text)

\* d[k] = v on a dict held as a function
DictAssign(d, k, v) == [x \in DOMAIN d \cup {k} |-> IF x = k THEN v ELSE d[x]]

-----------------------------------------------------------------------------
(* find_changes.print_item_changes (Mode A) *)

\* the body of "if changed:", lines 115-119: the date, then one line per change
ItemBlock(changed) ==
    <<HeaderEntry>> \o [i \in 1..Len(changed) |-> AttrEntry(item, changed[i].key, changed[i].change)]

ProcessItem_no_update(lst, record, changed) ==
    IF changed # <<>>
    THEN [out |-> ItemBlock(changed), last |-> lst]
    ELSE [out |-> <<>>, last |-> lst]

\* lines 114-121: print the block and remember the record, if anything changed
ProcessItem(lst, record, changed) ==
    IF changed # <<>>
    THEN [out |-> ItemBlock(changed), last |-> record]
    ELSE [out |-> <<>>, last |-> lst]

ModeAInit ==
    /\ pc = "fetch"
    /\ commit_no = 0
    /\ by_name = <<>> /\ out = <<>>
    /\ item \in Names
    /\ last = <<>>
    /\ on_scenario = TRUE
    /\ deleted_before = {}
    /\ last_by_name = <<>> /\ last_loaded = <<>>
    /\ printed_header = FALSE
    /\ ren_idx = 1
    /\ visited = {}
    /\ skip_keys = {}
    /\ DiffIdle
    /\ ReportIdle
    /\ RenameIdle

\* iter_db_changes yields the next commit
A_NextCommit ==
    /\ pc = "fetch"
    /\ commit_no < MaxCommits
    /\ \E snapshot \in Snapshots :
          /\ by_name' = snapshot
          /\ on_scenario' = OnScenario(commit_no + 1, snapshot, <<>>)
    /\ commit_no' = commit_no + 1
    /\ out' = <<>>
    /\ pc' = "commit"
    /\ UNCHANGED <<last_by_name, last_loaded, printed_header, ren_idx, visited,
                   skip_keys, item, last, deleted_before>>
    /\ UNCHANGED <<diffVars, renameVars, reportVars>>

\* the loop body, lines 110-122
A_Process ==
    /\ pc = "commit"
    /\ IF item \notin DOMAIN by_name
       THEN UNCHANGED <<out, last>>
       ELSE \E addedOrder \in Enumerations(KeySet(by_name[item]) \ KeySet(last)),
               deletedOrder \in Enumerations(KeySet(last) \ KeySet(by_name[item])),
               bOrder \in Enumerations(KeySet(by_name[item])) :
               LET changed == fc_get_changes(last, by_name[item],
                                             addedOrder, deletedOrder, bOrder)
               IN  /\ out' = ProcessItem(last, by_name[item], changed).out
                   /\ last' = ProcessItem(last, by_name[item], changed).last
    /\ pc' = "fetch"
    /\ UNCHANGED <<commit_no, by_name, last_by_name, last_loaded, printed_header,
                   ren_idx, visited, skip_keys, item, on_scenario, deleted_before>>
    /\ UNCHANGED <<diffVars, renameVars, reportVars>>

\* the iterator is exhausted: the function returns
WalkStop ==
    /\ pc = "fetch"
    /\ pc' = "done"
    /\ UNCHANGED <<commit_no, by_name, out, last_by_name, last_loaded, printed_header,
                   ren_idx, visited, skip_keys, item, last, on_scenario, deleted_before>>
    /\ UNCHANGED <<diffVars, renameVars, reportVars>>

ModeANext ==
    \/ A_NextCommit
    \/ A_Process
    \/ WalkStop

SpecA == ModeAInit /\ [][ModeANext]_vars

-----------------------------------------------------------------------------
(* find_changes.print_all_changes (Mode B) *)

ModeBInit ==
    /\ pc = "fetch"
    /\ commit_no = 0
    /\ by_name = <<>> /\ out = <<>>
    /\ last_by_name = <<>> /\ last_loaded = <<>>
    /\ printed_header = FALSE
    /\ ren_idx = 1
    /\ visited = {}
    /\ skip_keys \in {{}, {"last_edit"}}
    /\ item = <<>>
    /\ last = <<>>
    /\ on_scenario = TRUE
    /\ deleted_before = {}
    /\ DiffIdle
    /\ ReportIdle
    /\ RenameIdle

\* iter_db_changes yields the next commit; printed_header = False;
\* renames = find_renames(commit)                        (lines 158-166)
B_NextCommit ==
    /\ pc = "fetch"
    /\ commit_no < MaxCommits
    /\ \E c \in WalkCommits :
          /\ by_name' = c.by_name
          /\ renames' = c.found.dict
          /\ pc' = IF c.found.raised THEN "error" ELSE "commit"
          /\ on_scenario' = OnScenario(commit_no + 1, c.by_name, c.found.dict)
    /\ commit_no' = commit_no + 1
    /\ out' = <<>>
    /\ printed_header' = FALSE
    /\ ren_idx' = 1
    /\ visited' = {}
    /\ UNCHANGED <<last_by_name, last_loaded, skip_keys, item, last, deleted_before>>
    /\ UNCHANGED <<diffVars, raw_diff, r_status, reportVars>>

\* one pass of "for old, new in renames.items()"         (lines 167-170)
B_Rename ==
    /\ pc = "commit"
    /\ ren_idx <= Len(renames)
    /\ LET old == renames[ren_idx].key
           new == renames[ren_idx].val
       IN  /\ out' = out \o <<HeaderEntry, RenameEntry(old, new)>>
           /\ printed_header' = TRUE
           /\ IF old \in DOMAIN last_by_name
              THEN /\ last_by_name' = DictAssign(last_by_name, new, last_by_name[old])
                   /\ ren_idx' = ren_idx + 1
                   /\ pc' = pc
              ELSE \* KeyError
                   /\ pc' = "error"
                   /\ UNCHANGED <<last_by_name, ren_idx>>
    /\ UNCHANGED <<commit_no, by_name, last_loaded, visited, skip_keys, item, last,
                   on_scenario, deleted_before>>
    /\ UNCHANGED <<diffVars, renameVars, reportVars>>

RECURSIVE PrintChanges_no_skip(_, _, _, _, _)
PrintChanges_no_skip(it, itemChanges, i, hdr, acc) ==
    IF i > Len(itemChanges) THEN [out |-> acc, printed_header |-> hdr]
    ELSE LET withHeader == IF ~hdr THEN Append(acc, HeaderEntry) ELSE acc
             withLine == Append(withHeader,
                                AttrEntry(it, itemChanges[i].key, itemChanges[i].change))
         IN  PrintChanges_no_skip(it, itemChanges, i + 1, TRUE, withLine)

RECURSIVE PrintChanges(_, _, _, _, _)
\* the inner loop, lines 178-183, over the changes from the i-th on; hdr is
\* printed_header
PrintChanges(it, itemChanges, i, hdr, acc) ==
    IF i > Len(itemChanges) THEN [out |-> acc, printed_header |-> hdr]
    ELSE LET withHeader == IF ~hdr THEN Append(acc, HeaderEntry) ELSE acc
             withLine ==
                 IF itemChanges[i].key \notin skip_keys
                 THEN Append(withHeader, AttrEntry(it, itemChanges[i].key, itemChanges[i].change))
                 ELSE withHeader
         IN  PrintChanges(it, itemChanges, i + 1, TRUE, withLine)

B_Item_snapshot_items ==
    /\ pc = "commit"
    /\ ren_idx > Len(renames)
    /\ \E it \in (DOMAIN last_by_name \cup DOMAIN by_name) \ visited :
          /\ visited' = visited \cup {it}
          /\ IF it \notin DOMAIN by_name
             THEN /\ out' = out \o <<HeaderEntry, DeletedEntry(it)>>
                  /\ printed_header' = TRUE
             ELSE LET old == IF it \in DOMAIN last_by_name THEN last_by_name[it] ELSE <<>>
                  IN  \E addedOrder \in Enumerations(KeySet(by_name[it]) \ KeySet(old)),
                         deletedOrder \in Enumerations(KeySet(old) \ KeySet(by_name[it])),
                         bOrder \in Enumerations(KeySet(by_name[it])) :
                         LET printed == PrintChanges(it,
                                           fc_get_changes(old, by_name[it],
                                                          addedOrder, deletedOrder, bOrder),
                                           1, printed_header, out)
                         IN  /\ out' = printed.out
                             /\ printed_header' = printed.printed_header
    /\ UNCHANGED <<pc, commit_no, by_name, last_by_name, last_loaded, ren_idx, skip_keys,
                   item, last, on_scenario, deleted_before>>
    /\ UNCHANGED <<diffVars, renameVars, reportVars>>

B_Item_eager_update ==
    /\ pc = "commit"
    /\ ren_idx > Len(renames)
    /\ \E it \in DOMAIN last_by_name \ visited :
          /\ visited' = visited \cup {it}
          /\ IF it \notin DOMAIN by_name
             THEN /\ out' = out \o <<HeaderEntry, DeletedEntry(it)>>
                  /\ printed_header' = TRUE
                  /\ last_by_name' = last_by_name
             ELSE \E addedOrder \in Enumerations(KeySet(by_name[it]) \ KeySet(last_by_name[it])),
                     deletedOrder \in Enumerations(KeySet(last_by_name[it]) \ KeySet(by_name[it])),
                     bOrder \in Enumerations(KeySet(by_name[it])) :
                     LET printed == PrintChanges(it,
                                       fc_get_changes(last_by_name[it], by_name[it],
                                                      addedOrder, deletedOrder, bOrder),
                                       1, printed_header, out)
                     IN  /\ out' = printed.out
                         /\ printed_header' = printed.printed_header
                         /\ last_by_name' = DictAssign(last_by_name, it, by_name[it])
    /\ UNCHANGED <<pc, commit_no, by_name, last_loaded, ren_idx, skip_keys,
                   item, last, on_scenario, deleted_before>>
    /\ UNCHANGED <<diffVars, renameVars, reportVars>>

\* one pass of "for item in last_by_name"                (lines 172-183)
B_Item ==
    /\ pc = "commit"
    /\ ren_idx > Len(renames)
    /\ \E it \in DOMAIN last_by_name \ visited :
          /\ visited' = visited \cup {it}
          /\ IF it \notin DOMAIN by_name
             THEN /\ out' = out \o <<HeaderEntry, DeletedEntry(it)>>
                  /\ printed_header' = TRUE
             ELSE \E addedOrder \in Enumerations(KeySet(by_name[it]) \ KeySet(last_by_name[it])),
                     deletedOrder \in Enumerations(KeySet(last_by_name[it]) \ KeySet(by_name[it])),
                     bOrder \in Enumerations(KeySet(by_name[it])) :
                     LET printed == PrintChanges(it,
                                       fc_get_changes(last_by_name[it], by_name[it],
                                                      addedOrder, deletedOrder, bOrder),
                                       1, printed_header, out)
                     IN  /\ out' = printed.out
                         /\ printed_header' = printed.printed_header
    /\ UNCHANGED <<pc, commit_no, by_name, last_by_name, last_loaded, ren_idx, skip_keys,
                   item, last, on_scenario, deleted_before>>
    /\ UNCHANGED <<diffVars, renameVars, reportVars>>

AdvanceMerging(rolling, snapshot) ==
    [n \in DOMAIN rolling \cup DOMAIN snapshot |->
        IF n \in DOMAIN snapshot THEN snapshot[n] ELSE rolling[n]]

\* last_by_name = by_name                                (line 187)
Advance(rolling, snapshot) == snapshot

\* the end of the loop body                              (lines 185-187)
B_Advance ==
    /\ pc = "commit"
    /\ ren_idx > Len(renames)
    /\ visited = DOMAIN last_by_name
    /\ last_by_name' = Advance(last_by_name, by_name)
    /\ last_loaded' = by_name
    /\ deleted_before' = {out[i].item : i \in {j \in 1..Len(out) : out[j].kind = "deleted"}}
    /\ pc' = "fetch"
    /\ UNCHANGED <<commit_no, by_name, out, printed_header, ren_idx, visited, skip_keys,
                   item, last, on_scenario>>
    /\ UNCHANGED <<diffVars, renameVars, reportVars>>

ModeBNext ==
    \/ B_NextCommit
    \/ B_Rename
    \/ B_Item
    \/ B_Advance
    \/ WalkStop

SpecB == ModeBInit /\ [][ModeBNext]_vars

-----------------------------------------------------------------------------
(* diff.print_changes: the report over two databases *)

\* the characters of the strings that are compared or printed
Spell(str) ==
    CASE str = "added" -> <<"a", "d", "d", "e", "d">>
      [] str = "changed" -> <<"c", "h", "a", "n", "g", "e", "d">>
      [] str = "deleted" -> <<"d", "e", "l", "e", "t", "e", "d">>
      [] str = "name" -> NameKeyChars
      [] str = "v" -> VKeyChars
      [] str = "last_edit" -> <<"l", "a", "s", "t", "_", "e", "d", "i", "t">>

\* ord(c)
CodePoint(c) ==
    CASE c = "_" -> 95  [] c = "a" -> 97  [] c = "c" -> 99  [] c = "d" -> 100
      [] c = "e" -> 101 [] c = "g" -> 103 [] c = "h" -> 104 [] c = "i" -> 105
      [] c = "l" -> 108 [] c = "m" -> 109 [] c = "n" -> 110 [] c = "s" -> 115
      [] c = "t" -> 116 [] c = "v" -> 118 [] c = "x" -> 120 [] c = "y" -> 121

\* a < b on str: the first differing character decides, a proper prefix is less
StrLess(a, b) ==
    \E i \in 1..Len(b) :
        /\ Len(a) >= i - 1
        /\ \A j \in 1..(i - 1) : a[j] = b[j]
        /\ (Len(a) = i - 1 \/ CodePoint(a[i]) < CodePoint(b[i]))

\* a < b on the tuples (action, key, value) that get_changes yields.  No two
\* of them agree on action and key, so the values are never compared.
TupleLess(a, b) ==
    \/ StrLess(Spell(a.action), Spell(b.action))
    \/ a.action = b.action /\ StrLess(a.key, b.key)

\* sorted(events)
sorted(events) ==
    CHOOSE s \in Enumerations({events[i] : i \in 1..Len(events)}) :
        \A i, j \in 1..Len(s) : i < j => TupleLess(s[i], s[j])

\* a == b on two records (dicts of scalars)
PyDictEq(a, b) ==
    /\ KeySet(a) = KeySet(b)
    /\ \A k \in KeySet(a) : PyEq(a[k], b[k])

\* diff.get_changes on two databases: the keys are item names, the values records
get_db_changes(a, b, addedOrder, deletedOrder, bOrder) ==
    LET IsChanged(k) == k \in KeySet(a) /\ ~PyDictEq(a[k], b[k])
    IN  [i \in 1..Len(addedOrder) |-> Event("added", addedOrder[i], b[addedOrder[i]])]
        \o [i \in 1..Len(deletedOrder) |-> Event("deleted", deletedOrder[i], NoneVal)]
        \o [i \in 1..Len(SelectSeq(bOrder, IsChanged)) |->
              Event("changed", SelectSeq(bOrder, IsChanged)[i],
                    b[SelectSeq(bOrder, IsChanged)[i]])]

\* the events of get_changes on two records, their keys as Python strings
AttrEvents(evs) ==
    [i \in 1..Len(evs) |-> Event(evs[i].action, Spell(evs[i].key), evs[i].value)]

\* repr() of a JSON scalar
PyRepr(v) == IF v.ty = "str" THEN <<"'">> \o v.s \o <<"'">> ELSE PyStr(v)

\* db.get(device, {})
DbGet(db, device) == IF device \in DOMAIN db THEN db[device] ELSE <<>>

SummaryLine(n, total) == [kind |-> "summary", n |-> n, total |-> total]
DeviceLine(device, action) == [kind |-> "device", device |-> device, action |-> action]

\* lines 100-107: the line of one attribute event
AttrLine(device, ev, dev1, dev2) ==
    [kind |-> "attr", device |-> device, action |-> ev.action, key |-> ev.key,
     text |-> CASE ev.action = "deleted" -> <<"'">> \o ev.key \o <<"'">>
                [] ev.action = "added" -> PyRepr(ev.value)
                [] ev.action = "changed" ->
                      LET k == CHOOSE k \in KeySet(dev2) : Spell(k) = ev.key
                      IN  PyRepr(dev1[k]) \o <<" ", "-", ">", " ">> \o PyRepr(dev2[k])]

\* lines 91-107: the block of one device; attrChanges is get_changes(dev1, dev2)
DeviceBlock(ev, dev1, dev2, attrChanges) ==
    IF ev.action = "deleted" THEN <<DeviceLine(ev.key, ev.action)>>
    ELSE LET NotLastEdit(e) == e.key # Spell("last_edit")
             shown == SelectSeq(sorted(AttrEvents(attrChanges)), NotLastEdit)
         IN  <<DeviceLine(ev.key, ev.action)>>
             \o [i \in 1..Len(shown) |-> AttrLine(ev.key, shown[i], dev1, dev2)]

\* the databases get_database_from_commit can return: db.json as walked,
\* keyed by item name
ReportDbs ==
    UNION {{db \in [K -> UNION {ItemRecords(n) : n \in Names}] :
               \A k \in K : db[k] \in ItemRecords(k)} : K \in SUBSET Names}

ReportInit ==
    /\ db1 \in ReportDbs
    /\ db2 \in ReportDbs
    /\ device_changes = <<>>
    /\ dev_idx = 1
    /\ report = <<>>
    /\ report_pc = "start"
    /\ DiffIdle
    /\ RenameIdle
    /\ WalkIdle

\* lines 86-88
R_Summary ==
    /\ report_pc = "start"
    /\ \E addedOrder \in Enumerations(KeySet(db2) \ KeySet(db1)),
          deletedOrder \in Enumerations(KeySet(db1) \ KeySet(db2)),
          bOrder \in Enumerations(KeySet(db2)) :
          device_changes' = sorted(get_db_changes(db1, db2, addedOrder, deletedOrder, bOrder))
    /\ report' = <<SummaryLine(Len(device_changes'), Cardinality(DOMAIN db2))>>
    /\ report_pc' = "devices"
    /\ UNCHANGED <<db1, db2, dev_idx>>
    /\ UNCHANGED <<diffVars, renameVars, walkVars>>

\* one pass of "for action, device, _ in device_changes"      (lines 90-107)
R_Device ==
    /\ report_pc = "devices"
    /\ dev_idx <= Len(device_changes)
    /\ LET ev == device_changes[dev_idx]
           dev1 == DbGet(db1, ev.key)
           dev2 == DbGet(db2, ev.key)
       IN  \E addedOrder \in Enumerations(KeySet(dev2) \ KeySet(dev1)),
              deletedOrder \in Enumerations(KeySet(dev1) \ KeySet(dev2)),
              bOrder \in Enumerations(KeySet(dev2)) :
              report' = report \o DeviceBlock(ev, dev1, dev2,
                                     get_changes(dev1, dev2, addedOrder, deletedOrder, bOrder))
    /\ dev_idx' = dev_idx + 1
    /\ UNCHANGED <<db1, db2, device_changes, report_pc>>
    /\ UNCHANGED <<diffVars, renameVars, walkVars>>

\* the loop is over: print_changes returns
R_Return ==
    /\ report_pc = "devices"
    /\ dev_idx > Len(device_changes)
    /\ report_pc' = "done"
    /\ UNCHANGED <<db1, db2, device_changes, dev_idx, report>>
    /\ UNCHANGED <<diffVars, renameVars, walkVars>>

ReportNext ==
    \/ R_Summary
    \/ R_Device
    \/ R_Return

SpecReport == ReportInit /\ [][ReportNext]_vars

-----------------------------------------------------------------------------
(* Properties of the differ *)

Range(seq) == {seq[i] : i \in 1..Len(seq)}
CountAction(seq, action) == Cardinality({i \in 1..Len(seq) : seq[i].action = action})
OnePerKey(seq) == \A i, j \in 1..Len(seq) : i # j => seq[i].key # seq[j].key

AddedKeys == KeySet(d2) \ KeySet(d1)
DeletedKeys == KeySet(d1) \ KeySet(d2)
ChangedKeys == {k \in KeySet(d1) \cap KeySet(d2) : ~PyEq(d1[k], d2[k])}

ExpectedEvents ==
    {Event("added", k, d2[k]) : k \in AddedKeys}
    \cup {Event("deleted", k, NoneVal) : k \in DeletedKeys}
    \cup {Event("changed", k, d2[k]) : k \in ChangedKeys}

ExpectedTexts ==
    {Change(k, PyStr(d2[k])) : k \in AddedKeys}
    \cup {Change(k, DeletedKeyText) : k \in DeletedKeys}
    \cup {Change(k, PyStr(d1[k]) \o ArrowText \o PyStr(d2[k])) : k \in ChangedKeys}

\* C1: get_changes(d1, d2) emits exactly Added(k, d2[k]) for the keys only in
\* d2, Deleted(k, none) for the keys only in d1, Changed(k, d2[k]) for the
\* common keys whose values differ under native equality, nothing for the
\* others, and so at most one event per key.  find_changes.get_changes emits
\* the same events as (key, text) pairs.
C1_GetChangesExact ==
    /\ "get_changes" \in called =>
          /\ Range(changes) = ExpectedEvents
          /\ OnePerKey(changes)
    /\ "fc_get_changes" \in called =>
          /\ Range(fc_changes) = ExpectedTexts
          /\ OnePerKey(fc_changes)

\* one event of each kind in a single call, and a common key left alone
C1_Witness ==
    /\ "get_changes" \in called
    /\ CountAction(changes, "added") = 1
    /\ CountAction(changes, "deleted") = 0
    /\ CountAction(changes, "changed") = 1
    /\ d1 = [a |-> IntVal(1)]
    /\ d2 = [a |-> StrVal(<<"1">>), b |-> NoneVal]

\* C6 (as claimed): the is_same of both files is true iff the key sets are
\* identical and the string representations of the values agree.
C6_IsSameStringCoerced ==
    LET StrSame == /\ KeySet(d1) = KeySet(d2)
                   /\ \A k \in KeySet(d1) : PyStr(d1[k]) = PyStr(d2[k])
    IN  /\ "is_same" \in called => (same <=> StrSame)
        /\ "fc_is_same" \in called => (fc_same <=> StrSame)

\* C7: get_changes(d, d) emits no event.
C7_NoChangeNoEvent ==
    /\ ("get_changes" \in called /\ d1 = d2) => changes = <<>>
    /\ ("fc_get_changes" \in called /\ d1 = d2) => fc_changes = <<>>

C7_Witness ==
    /\ {"get_changes", "fc_get_changes"} \subseteq called
    /\ d1 = d2
    /\ KeySet(d1) = DiffKeys
    /\ d1["a"] # d1["b"]

\* C8: for disjoint key sets get_changes(d1, d2) emits len(d2) Added events,
\* len(d1) Deleted events and no Changed event.
C8_DisjointKeys ==
    ("get_changes" \in called /\ KeySet(d1) \cap KeySet(d2) = {}) =>
        /\ CountAction(changes, "added") = Cardinality(KeySet(d2))
        /\ CountAction(changes, "deleted") = Cardinality(KeySet(d1))
        /\ CountAction(changes, "changed") = 0
        /\ Len(changes) = Cardinality(KeySet(d1)) + Cardinality(KeySet(d2))

C8_Witness ==
    /\ "get_changes" \in called
    /\ KeySet(d1) = {"a"}
    /\ KeySet(d2) = {"b"}
    /\ Len(changes) = 2

\* C9: is_same(d1, d2) = is_same(d2, d1), for the is_same of both files.
C9_IsSameSymmetric ==
    /\ "is_same" \in called => (same = same_rev)
    /\ "fc_is_same" \in called => (fc_same = fc_same_rev)

\* both orders evaluated on records with different key sets, and on
\* different records that are the same
C9_Witness ==
    /\ {"is_same", "fc_is_same"} \subseteq called
    /\ KeySet(d1) = {"a"}
    /\ KeySet(d2) = {"a", "b"}
    /\ ~same /\ ~same_rev

-----------------------------------------------------------------------------
(* Properties of the walk *)

OneToTwo == <<"1">> \o ArrowText \o <<"2">>

\* C2 (as claimed): Mode B over S1, S2, S3 from an empty rolling state prints
\* an Added event for "v" of x at S1, one Changed event for "v" at S2 and one
\* Deleted-item event for x at S3.
C2_ScenarioAsClaimed ==
    (on_scenario /\ pc = "fetch") =>
        /\ commit_no = 1 =>
              \E i \in 1..Len(out) : out[i] = AttrEntry(NameX, "v", <<"1">>)
        /\ commit_no = 2 => out = <<HeaderEntry, AttrEntry(NameX, "v", OneToTwo)>>
        /\ commit_no = 3 => out = <<HeaderEntry, DeletedEntry(NameX)>>

\* C2 (amended): Mode B over S1, S2, S3 from an empty rolling state prints
\* nothing at S1 (x is not tracked yet), exactly one Changed event for "v"
\* (1 -> 2) at S2 and exactly one Deleted-item event for x at S3.
C2_ScenarioB ==
    (on_scenario /\ pc = "fetch") =>
        /\ commit_no = 1 => out = <<>>
        /\ commit_no = 2 => out = <<HeaderEntry, AttrEntry(NameX, "v", OneToTwo)>>
        /\ commit_no = 3 => out = <<HeaderEntry, DeletedEntry(NameX)>>

C2_Witness ==
    /\ on_scenario /\ pc = "fetch" /\ commit_no = 3
    /\ skip_keys = {"last_edit"}
    /\ last_by_name = <<>>

RecordsDiffer(a, b) ==
    \/ KeySet(a) # KeySet(b)
    \/ \E k \in KeySet(a) \cap KeySet(b) : ~PyEq(a[k], b[k])

Headers(printed) == Cardinality({i \in 1..Len(printed) : printed[i].kind = "header"})

\* C3: Mode A for item i: a snapshot without i prints nothing and leaves the
\* last-seen record alone; a snapshot with i is diffed against the last-seen
\* record (empty at first), and a block is printed and the last-seen record
\* set to the snapshot's record exactly when the diff is not empty.  Over S1,
\* S2, S3 that is one block at S1, one at S2, nothing at S3; and nothing is
\* ever printed while i has not appeared.
C3_ModeA ==
    /\ [][(pc = "commit" /\ pc' = "fetch") =>
            IF item \notin DOMAIN by_name
            THEN out' = <<>> /\ last' = last
            ELSE IF RecordsDiffer(last, by_name[item])
            THEN /\ Headers(out') = 1 /\ out'[1] = HeaderEntry /\ Len(out') > 1
                 /\ last' = by_name[item]
            ELSE out' = <<>> /\ last' = last]_vars
    /\ []((on_scenario /\ pc = "fetch" /\ item = NameX) =>
            /\ commit_no = 1 =>
                  /\ Len(out) = 3 /\ out[1] = HeaderEntry
                  /\ {out[2], out[3]} = {AttrEntry(NameX, "v", <<"1">>),
                                         AttrEntry(NameX, "name", NameX)}
            /\ commit_no = 2 => out = <<HeaderEntry, AttrEntry(NameX, "v", OneToTwo)>>
            /\ commit_no = 3 => out = <<>>)
    /\ [](last = <<>> => out = <<>>)

\* the traced item was seen, changed, then left the database
C3_Witness ==
    /\ on_scenario /\ pc = "fetch" /\ commit_no = 3
    /\ item = NameX
    /\ last = Scenario[2][NameX]

\* C5 (as claimed): each rename old->new moves the rolling-state entry: new
\* maps to the record old held, and old is no longer a key.
C5_RenameMovesEntry ==
    [][(pc = "commit" /\ ren_idx' = ren_idx + 1) =>
          /\ renames[ren_idx].val \in DOMAIN last_by_name'
          /\ last_by_name'[renames[ren_idx].val] = last_by_name[renames[ren_idx].key]
          /\ renames[ren_idx].key \notin DOMAIN last_by_name']_vars

\* C10: in Mode B, once a commit has been processed the rolling state is
\* exactly that commit's snapshot.
C10_RollingIsSnapshot ==
    (pc \in {"fetch", "done"} /\ commit_no > 0) => last_by_name = by_name

\* a commit with a rename and a deleted item has been processed
C10_Witness ==
    /\ pc = "fetch" /\ commit_no = 2
    /\ renames # <<>>
    /\ \E i \in 1..Len(out) : out[i].kind = "deleted"
    /\ last_by_name = by_name

\* the items of the current snapshot that the rolling state did not track
\* when the commit arrived and that no rename of the commit targets
FirstAppearances ==
    {n \in DOMAIN by_name :
        /\ n \notin DOMAIN last_loaded
        /\ n \notin {renames[i].val : i \in 1..Len(renames)}}

ItemEntries(printed, n) ==
    {i \in 1..Len(printed) : printed[i].kind \in {"deleted", "attr"} /\ printed[i].item = n}

\* C11: in Mode B an item of the current snapshot that the rolling state does
\* not track when the commit is processed, and that is not the target of a
\* rename, gets no event in that commit; it is tracked from the next commit on.
C11_FirstAppearanceSilent ==
    /\ pc \in {"commit", "error"} =>
          \A n \in FirstAppearances : ItemEntries(out, n) = {}
    /\ (pc = "fetch" /\ commit_no > 0) =>
          DOMAIN by_name \subseteq DOMAIN last_by_name

\* a new item has arrived beside a tracked one that changed, and the item
\* loop has ended
C11_Witness ==
    /\ pc = "commit" /\ commit_no = 2
    /\ ren_idx > Len(renames)
    /\ visited = DOMAIN last_by_name
    /\ NameY \in FirstAppearances
    /\ ItemEntries(out, NameX) # {}

DeletedEntries(printed, n) ==
    {i \in 1..Len(printed) : printed[i].kind = "deleted" /\ printed[i].item = n}

\* the item loop of the current commit has ended
ItemLoopEnded == pc = "commit" /\ ren_idx > Len(renames) /\ visited = DOMAIN last_by_name

\* C12 (as claimed): in Mode B a tracked item that is absent from the snapshot
\* gets a Deleted-item event and stays in the rolling state, so that while it
\* stays absent it gets a Deleted-item event again on every later commit.
C12_DeletedStaysTracked ==
    /\ (pc = "fetch" /\ commit_no > 0) =>
          \A n \in Names : DeletedEntries(out, n) # {} => n \in DOMAIN last_by_name
    /\ ItemLoopEnded =>
          \A n \in deleted_before \ DOMAIN by_name : DeletedEntries(out, n) # {}

\* C12 (amended): in Mode B a tracked item that is absent from the snapshot
\* gets exactly one Deleted-item event in that commit; the rolling state is
\* then replaced by the snapshot, so the item is no longer tracked, and while
\* it stays absent it gets no further Deleted-item event unless a rename of a
\* later commit targets it.
C12_DeletedOnce ==
    /\ ItemLoopEnded =>
          \A n \in Names :
             Cardinality(DeletedEntries(out, n)) =
                IF n \in DOMAIN last_by_name \ DOMAIN by_name THEN 1 ELSE 0
    /\ (pc = "fetch" /\ commit_no > 0) =>
          \A n \in Names : DeletedEntries(out, n) # {} => n \notin DOMAIN last_by_name
    /\ pc \in {"commit", "error"} =>
          \A n \in deleted_before \ DOMAIN by_name :
             n \notin {renames[i].val : i \in 1..Len(renames)} => DeletedEntries(out, n) = {}

\* an item was reported deleted, and the next commit, where it is still
\* absent, has been walked through
C12_Witness ==
    /\ ItemLoopEnded /\ commit_no = 3
    /\ NameX \in deleted_before
    /\ NameX \notin DOMAIN by_name
    /\ NameY \in DOMAIN last_by_name \ DOMAIN by_name
    /\ Cardinality(DeletedEntries(out, NameY)) = 1

\* the attributes get_changes reports between two records
ReportedKeys(a, b) ==
    (KeySet(b) \ KeySet(a)) \cup (KeySet(a) \ KeySet(b))
    \cup {k \in KeySet(a) \cap KeySet(b) : ~PyEq(a[k], b[k])}

AttrEntries(printed, n, k) ==
    {i \in 1..Len(printed) :
        printed[i].kind = "attr" /\ printed[i].item = n /\ printed[i].key = k}

AttrKeys == {"name", "v", "last_edit"}

\* C13: in Mode B every item that is tracked and in the current snapshot gets
\* exactly one attribute event for each attribute get_changes(old, new)
\* reports that is not in the skip keys, and no attribute event is ever
\* emitted for an attribute in the skip keys.
C13_OneEventPerReportedAttr ==
    /\ pc \in {"commit", "error"} =>
          \A n \in visited \cap DOMAIN by_name : \A k \in AttrKeys :
             Cardinality(AttrEntries(out, n, k)) =
                IF k \in ReportedKeys(last_by_name[n], by_name[n]) \ skip_keys THEN 1 ELSE 0
    /\ \A i \in 1..Len(out) : out[i].kind = "attr" => out[i].key \notin skip_keys

\* an item changed v and gained last_edit, which is skipped
C13_Witness ==
    /\ ItemLoopEnded
    /\ skip_keys = {"last_edit"}
    /\ NameX \in visited \cap DOMAIN by_name
    /\ ReportedKeys(last_by_name[NameX], by_name[NameX]) = {"v", "last_edit"}
    /\ Cardinality(AttrEntries(out, NameX, "v")) = 1

\* the rolling state as it was when the commit arrived with the first k
\* renames of the commit written into it
RECURSIVE AfterRenames(_, _, _)
AfterRenames(d, rs, k) ==
    IF k = 0 THEN d
    ELSE LET p == AfterRenames(d, rs, k - 1)
         IN  [x \in DOMAIN p \cup {rs[k].val} |->
                 IF x = rs[k].val THEN p[rs[k].key] ELSE p[x]]

EventEntries(printed) == {i \in 1..Len(printed) : printed[i].kind # "header"}

RollingIsPreviousSnapshot == pc \in {"commit", "error"} /\ commit_no >= 2

\* C15 (as claimed): the previous snapshot, which the rolling state refers
\* to, keeps the keys and records it was loaded with while later commits are
\* processed.
C15_SnapshotsImmutable ==
    RollingIsPreviousSnapshot => last_by_name = last_loaded

\* C17 (as claimed): whenever the rename step is about to handle old->new,
\* old is a key of the rolling state, and the walk is never aborted by the
\* lookup.
C17_RenameNeverFails ==
    (pc = "commit" /\ ren_idx <= Len(renames)) =>
        renames[ren_idx].key \in DOMAIN last_by_name

\* C18: in Mode A, after a snapshot that holds the traced item has been
\* processed, the last-seen record equals the snapshot's record of the item,
\* whether a block was printed or not.
C18_LastSeenIsSnapshotRecord ==
    (pc = "fetch" /\ commit_no > 0 /\ item \in DOMAIN by_name) =>
        /\ ~RecordsDiffer(last, by_name[item])
        /\ last = by_name[item]

\* a later snapshot held the same record: nothing was printed or assigned
C18_Witness ==
    /\ pc = "fetch" /\ commit_no >= 2
    /\ item \in DOMAIN by_name
    /\ out = <<>>
    /\ last = by_name[item]

\* C19 (as claimed): what Mode B has printed for a commit holds one header if
\* it holds an event line and no header otherwise.
C19_HeaderIffEvents ==
    Headers(out) = IF EventEntries(out) # {} THEN 1 ELSE 0

DeviceLines == {i \in 1..Len(report) : report[i].kind = "device"}
AttrLines(device) ==
    {i \in 1..Len(report) : report[i].kind = "attr" /\ report[i].device = device}

\* (key, kind) order on two printed events
KeyThenKind(keyA, actionA, keyB, actionB) ==
    \/ StrLess(keyA, keyB)
    \/ keyA = keyB /\ StrLess(Spell(actionA), Spell(actionB))

\* C16 (as claimed): the device lines of the report, and the attribute lines
\* of each device, are in ascending order of key, and of kind for equal keys.
\* (print_changes sorts the tuples (action, key, value): kind comes first.)
C16_SortedByKeyThenKind ==
    /\ \A i, j \in DeviceLines : i < j =>
          KeyThenKind(report[i].device, report[i].action, report[j].device, report[j].action)
    /\ \A n \in Names : \A i, j \in AttrLines(n) : i < j =>
          KeyThenKind(report[i].key, report[i].action, report[j].key, report[j].action)

=============================================================================
